---- MODULE Spec2Model ----
(***************************************************************************)
(* Dividend-Data: frequency inference (frequency_inference.py), valuation  *)
(* labelling and per-ticker yield (daily_etf_yield_tracker.py,             *)
(* etf_yield_tracker.py) and the history table merge                       *)
(* (historical_yield_tracker.py).                                          *)
(*                                                                         *)
(* Conventions.  A float that may be missing (NaN / None / pd.NA) is a     *)
(* sequence of length at most one: NaN == << >>, and the number x is       *)
(* <<x>>.  Dates are day numbers.  Amounts, prices and yields are          *)
(* integers in a fixed unit (the comparisons the code makes are modelled   *)
(* in exact arithmetic).  Frequency labels are the strings the code uses;  *)
(* where the code edits a label's characters it is a sequence of them.     *)
(***************************************************************************)
EXTENDS Integers, Sequences, FiniteSets, TLC

VARIABLES
    days,       \* argument of infer_frequency_from_days (frequency_inference.py:54)
    label,      \* its return value, "none" before the call
    csv,        \* the history file historical_yield_*.csv
    upd,        \* outcome of the last update_frequencies_inplace call
    daily,      \* daily_df handed to _merge_stats_and_valuation
    stats,      \* the statistics file yield_stats_*.csv
    merged,     \* result of _merge_stats_and_valuation
    tin,        \* inputs of one process_ticker call
    trow,       \* the row process_ticker returned
    PRICE_CACHE_MEM, \* the price cache (historical_yield_tracker.py:46)
    calls       \* the get_price_on_date calls made so far in this run

vars == <<days, label, csv, upd, daily, stats, merged, tin, trow,
          PRICE_CACHE_MEM>>

----------------------------------------------------------------------------
(* Missing values *)

NaN == << >>

isna(v) == v = NaN

Val(v) == v[1]

Abs(x) == IF x < 0 THEN 0 - x ELSE x

Max2(x, y) == IF x >= y THEN x ELSE y

----------------------------------------------------------------------------
(* Bounds *)

MaxDays == 260

MaxNegDays == 2

----------------------------------------------------------------------------
(* frequency_inference.py: day-gap -> label *)

infer_frequency_from_days_offbyone(d) ==
    IF isna(d) \/ Val(d) <= 0 THEN "monthly"
    ELSE IF Val(d) <= 10 THEN "weekly"
    ELSE IF Val(d) <= 20 THEN "bi-weekly"
    ELSE IF Val(d) <= 25 THEN "semi-monthly"
    ELSE IF Val(d) <= 60 THEN "monthly"
    ELSE IF Val(d) <= 130 THEN "quarterly"
    ELSE IF Val(d) <= 250 THEN "semi-annual"
    ELSE "annual"

infer_frequency_from_days(d) ==
    IF isna(d) \/ Val(d) <= 0 THEN "monthly"
    ELSE IF Val(d) < 10 THEN "weekly"
    ELSE IF Val(d) < 20 THEN "bi-weekly"
    ELSE IF Val(d) < 25 THEN "semi-monthly"
    ELSE IF Val(d) < 60 THEN "monthly"
    ELSE IF Val(d) < 130 THEN "quarterly"
    ELSE IF Val(d) < 250 THEN "semi-annual"
    ELSE "annual"

----------------------------------------------------------------------------
(* Idle values of the variables a specification does not use *)

IdleCsv == [state |-> "absent", rows |-> << >>]

IdleStats == [state |-> "absent", cols |-> {}, rows |-> << >>]

IdleMerged == [status |-> "none", rows |-> << >>]

IdleTin == [script |-> "none"]

IdleTrow == [status |-> "none"]

HistIdle == csv = IdleCsv /\ upd = "none"

ValIdle == daily = << >> /\ stats = IdleStats /\ merged = IdleMerged

TickIdle == tin = IdleTin /\ trow = IdleTrow

DaysIdle == days = NaN /\ label = "none"

CacheIdle == PRICE_CACHE_MEM = << >> /\ calls = << >>

----------------------------------------------------------------------------
(* Specification SpecDays: infer_frequency_from_days applied to one day-gap. *)
(* days_to_next / days_to_prev are whole days (.dt.days) or NaN.             *)

DayGaps == {NaN} \cup {<<d>> : d \in (0 - MaxNegDays)..MaxDays}

InitDays ==
    /\ days \in DayGaps
    /\ label = "none"
    /\ HistIdle /\ ValIdle /\ TickIdle /\ CacheIdle

InferDays ==
    /\ label = "none"
    /\ label' = infer_frequency_from_days(days)
    /\ UNCHANGED <<days, csv, upd, daily, stats, merged, tin, trow, PRICE_CACHE_MEM, calls>>

NextDays == InferDays

SpecDays == InitDays /\ [][NextDays]_vars

\* C1: every day-gap maps to exactly one label with inclusive lower bounds:
\* an undefined gap or a gap <= 0 gives monthly, 1..9 weekly, 10..19 bi-weekly,
\* 20..24 semi-monthly, 25..59 monthly, 60..129 quarterly, 130..249 semi-annual
\* and >= 250 annual (the code spells the labels in lower case).
C1_DayGapLabel ==
    label # "none" =>
        /\ (isna(days) => label = "monthly")
        /\ (~isna(days) =>
              LET d == Val(days) IN
              /\ (d <= 0 => label = "monthly")
              /\ (d \in 1..9 => label = "weekly")
              /\ (d \in 10..19 => label = "bi-weekly")
              /\ (d \in 20..24 => label = "semi-monthly")
              /\ (d \in 25..59 => label = "monthly")
              /\ (d \in 60..129 => label = "quarterly")
              /\ (d \in 130..249 => label = "semi-annual")
              /\ (d >= 250 => label = "annual"))

\* C1 witness: a gap of exactly 250 days has been labelled annual.
C1_Witness == days = <<250>> /\ label = "annual"

----------------------------------------------------------------------------
(* The history table historical_yield_*.csv.                                 *)
(* csv.state: "absent" (no file), "unreadable" (a file pd.read_csv raises    *)
(* on: zero bytes, or a malformed line; csv.rows are then the events its     *)
(* lines hold), "table" (a header and csv.rows).  A row is                   *)
(* [Ticker, Date, Dividend, Frequency]; process_universe writes Frequency "" *)

MaxRows == 3

MaxBatch == 2

Tickers == {"A", "B"}

TickerOrd(t) == IF t = "A" THEN 1 ELSE 2

Dates == {0, 95, 125}

Amounts == {NaN, <<99>>, <<100>>, <<198>>}

NewRows == [Ticker : Tickers, Date : Dates, Dividend : Amounts, Frequency : {""}]

SeqsUpTo(S, n) == UNION {[1..k -> S] : k \in 0..n}

Batches == SeqsUpTo(NewRows, MaxBatch)

SameKey(r1, r2) == r1.Ticker = r2.Ticker /\ r1.Date = r2.Date

\* combined.drop_duplicates(subset=["Ticker", "Ex-Div Date"]): keep="first"
RECURSIVE drop_duplicates(_)
drop_duplicates(s) ==
    IF s = << >> THEN << >>
    ELSE LET n == Len(s)
             front == SubSeq(s, 1, n - 1)
         IN IF \E j \in 1..(n - 1) : SameKey(s[j], s[n])
            THEN drop_duplicates(front)
            ELSE Append(drop_duplicates(front), s[n])

RowLeq(r1, r2) ==
    \/ TickerOrd(r1.Ticker) < TickerOrd(r2.Ticker)
    \/ r1.Ticker = r2.Ticker /\ r1.Date <= r2.Date

\* r put after every row of the sorted s that is not greater than it
RECURSIVE InsertSorted(_, _)
InsertSorted(r, s) ==
    IF s = << >> THEN <<r>>
    ELSE IF RowLeq(s[Len(s)], r) THEN Append(s, r)
    ELSE Append(InsertSorted(r, SubSeq(s, 1, Len(s) - 1)), s[Len(s)])

\* sort_values(["Ticker", "Ex-Div Date"]): ascending, equal keys keep their order
RECURSIVE sort_values(_)
sort_values(s) ==
    IF s = << >> THEN << >>
    ELSE InsertSorted(s[Len(s)], sort_values(SubSeq(s, 1, Len(s) - 1)))

Table(rows) == [state |-> "table", rows |-> rows]

\* append_rows(csv_path, rows): the file it leaves
append_rows(file, rows) ==
    IF rows = << >> THEN file
    ELSE IF file.state = "table"
         THEN Table(sort_values(drop_duplicates(file.rows \o rows)))
         \* no file, or the merge raised: new_df alone is sorted and written
         ELSE Table(sort_values(rows))

----------------------------------------------------------------------------
(* frequency_inference.py: update_frequencies_inplace *)

\* rel_diff(a, b) on two floats: NaN, or the fraction <<numerator, denominator>>
rel_diff(a, b) ==
    IF isna(a) \/ isna(b) THEN NaN
    ELSE LET m == Max2(Abs(Val(a)), Abs(Val(b)))
         IN IF m = 0 THEN <<0, 1>> ELSE <<Abs(Val(a) - Val(b)), m>>

\* (reldiff_prev + 0.05) < reldiff_next; a comparison with NaN is False
prefer_prev(rp, rn) ==
    IF isna(rp) \/ isna(rn) THEN FALSE
    ELSE 20 * rp[1] * rn[2] + rp[2] * rn[2] < 20 * rn[1] * rp[2]

\* one ticker's rows of df.sort_values(["Ticker", "Ex-Div Date"])
Group(rows, t) ==
    LET IsT(r) == r.Ticker = t
    IN SelectSeq(sort_values(rows), IsT)

\* Series.shift(-1) and Series.shift(1)
shift_next(col) == [i \in DOMAIN col |-> IF i < Len(col) THEN col[i + 1] ELSE NaN]

shift_prev(col) == [i \in DOMAIN col |-> IF i > 1 THEN col[i - 1] ELSE NaN]

DateCol(g) == [i \in DOMAIN g |-> <<g[i].Date>>]

DividendCol(g) == [i \in DOMAIN g |-> g[i].Dividend]

\* (later - earlier).dt.days, NaN where a neighbour is missing
DaysBetween(later, earlier) ==
    IF isna(later) \/ isna(earlier) THEN NaN ELSE <<Val(later) - Val(earlier)>>

days_to_next(g) ==
    [i \in DOMAIN g |-> DaysBetween(shift_next(DateCol(g))[i], DateCol(g)[i])]

days_to_prev(g) ==
    [i \in DOMAIN g |-> DaysBetween(DateCol(g)[i], shift_prev(DateCol(g))[i])]

\* freq_days of row i when the relative differences are taken row by row
freq_days(g, i) ==
    LET rn == rel_diff(g[i].Dividend, shift_next(DividendCol(g))[i])
        rp == rel_diff(g[i].Dividend, shift_prev(DividendCol(g))[i])
    IN IF prefer_prev(rp, rn) THEN days_to_prev(g)[i] ELSE days_to_next(g)[i]

\* The truth value of a pandas Series (`pd.isna(a) or ...` with a a column):
\* NDFrame.__bool__ raises ValueError whatever the Series holds.
SeriesBool(s) == "ValueError"

\* update_frequencies_inplace(path): the file it leaves and how the call ended.
\* Line 155 hands rel_diff the whole Dividend column of the first group, and
\* rel_diff's first statement takes the truth value of pd.isna(column).
update_frequencies_inplace(file) ==
    IF file.state = "absent" THEN [file |-> file, outcome |-> "skipped"]
    ELSE IF file.state = "unreadable"
         THEN [file |-> file,
               outcome |-> IF file.rows = << >> THEN "EmptyDataError" ELSE "ParserError"]
    ELSE IF file.rows = << >> THEN [file |-> file, outcome |-> "skipped"]
    ELSE LET g == Group(file.rows, sort_values(file.rows)[1].Ticker)
             isna_a == [i \in DOMAIN g |-> isna(DividendCol(g)[i])]
         IN [file |-> file, outcome |-> SeriesBool(isna_a)]

----------------------------------------------------------------------------
(* Specification SpecHist: append_rows and update_frequencies_inplace on one *)
(* history file.                                                             *)

\* what a file pd.read_csv raises on may hold: nothing, or an event
DamagedRows ==
    {<< >>, <<[Ticker |-> "A", Date |-> 0, Dividend |-> <<100>>, Frequency |-> ""]>>}

InitHist ==
    /\ csv \in {[state |-> "absent", rows |-> << >>]} \cup
               {[state |-> "unreadable", rows |-> r] : r \in DamagedRows}
    /\ upd = "none"
    /\ DaysIdle /\ ValIdle /\ TickIdle /\ CacheIdle

AppendRows ==
    \E batch \in Batches :
        LET file == append_rows(csv, batch)
        IN /\ Len(file.rows) <= MaxRows
           /\ csv' = file
           /\ upd' = IF batch = << >> THEN upd ELSE "none"
           /\ UNCHANGED <<days, label, daily, stats, merged, tin, trow, PRICE_CACHE_MEM, calls>>

UpdateFrequencies ==
    LET r == update_frequencies_inplace(csv)
    IN /\ csv' = r.file
       /\ upd' = r.outcome
       /\ UNCHANGED <<days, label, daily, stats, merged, tin, trow, PRICE_CACHE_MEM, calls>>

NextHist == AppendRows \/ UpdateFrequencies

SpecHist == InitHist /\ [][NextHist]_vars

\* The last update_frequencies_inplace call ended (it was not skipped) on the
\* table now in the file.
Updated == upd \notin {"none", "skipped"} /\ csv.state = "table"

Interior(g, i) == i \in DOMAIN g /\ 1 < i /\ i < Len(g)

\* C2: after update_frequencies_inplace, every event with both neighbours is
\* labelled from its gap to the PREVIOUS event iff both relative differences are
\* defined and rel_diff_prev + 0.05 < rel_diff_next, else from its gap to the NEXT.
C2_NeighbourChoice ==
    Updated =>
        \A t \in Tickers :
            LET g == Group(csv.rows, t)
            IN \A i \in DOMAIN g :
                   Interior(g, i) =>
                       g[i].Frequency = infer_frequency_from_days(freq_days(g, i))

\* C3: after update_frequencies_inplace on a ticker with at least two events, the
\* first event is labelled from its gap to the next event and the last event
\* from its gap to the previous one.
C3_EdgeEvents ==
    Updated =>
        \A t \in Tickers :
            LET g == Group(csv.rows, t)
                n == Len(g)
            IN n >= 2 =>
                   /\ g[1].Frequency = infer_frequency_from_days(days_to_next(g)[1])
                   /\ g[n].Frequency = infer_frequency_from_days(days_to_prev(g)[n])

\* C4: update_frequencies_inplace on a file whose only row is one dated event
\* does not raise: it writes the table back with that event labelled monthly.
C4_SingleEvent ==
    (upd # "none" /\ csv.state = "table" /\ Len(csv.rows) = 1) =>
        upd = "written" /\ csv.rows[1].Frequency = "monthly"

\* C10: after any sequence of append_rows calls the persisted table holds at
\* most one row per (Ticker, Ex-Div Date).
C10_UniqueKeys ==
    csv.state = "table" =>
        \A i, j \in DOMAIN csv.rows :
            SameKey(csv.rows[i], csv.rows[j]) => i = j

\* the (Ticker, Ex-Div Date) keys of the events a file holds
Keys(rows) == {<<rows[i].Ticker, rows[i].Date>> : i \in DOMAIN rows}

\* C11: when append_rows merges a batch holding a row whose (Ticker, Ex-Div
\* Date) key is already in the persisted table, the row the table keeps for
\* that key is one the batch has just written, not the older one.
C11_LastWriteWins ==
    csv.state = "table" =>
        \A batch \in Batches :
            \A i \in DOMAIN batch :
                (\E j \in DOMAIN csv.rows : SameKey(csv.rows[j], batch[i])) =>
                    LET out == append_rows(csv, batch).rows
                    IN \A k \in DOMAIN out :
                           SameKey(out[k], batch[i]) =>
                               \E m \in DOMAIN batch : out[k] = batch[m]

\* C12: the persisted event table is append-only: every (Ticker, Ex-Div Date)
\* key the file holds before a scrape/merge run or a frequency-inference run is
\* still in it after the run, also when the merge raises.
C12_AppendOnly == [][Keys(csv.rows) \subseteq Keys(csv'.rows)]_vars

----------------------------------------------------------------------------
(* daily_etf_yield_tracker.py: _merge_stats_and_valuation.                   *)
(* Yields and statistics are in units of 0.01 %.                             *)
(* stats.state: "absent" (no file), "unreadable" (pd.read_csv raises),       *)
(* "table": stats.cols is the header and each row maps every header to its   *)
(* cell.  daily is daily_df: rows [Ticker, cur] (cur: "Current Yield (%)").  *)

MaxStats == 1

MaxDaily == 1

MedianH == "Median Annualized Yield %"

MeanH == "Mean Annualized Yield %"

StdH == "Std Dev %"

LegacyMedianH == "Average Yield %"

LegacyMeanH == "Mean Yield %"

LegacyStdH == "Std Deviation"

\* rename_map (lines 186-192): a legacy header is renamed unless the new one is there
RenameSource(cols, h) ==
    IF h = MedianH /\ LegacyMedianH \in cols /\ MedianH \notin cols THEN LegacyMedianH
    ELSE IF h = MeanH /\ LegacyMeanH \in cols /\ MeanH \notin cols THEN LegacyMeanH
    ELSE IF h = StdH /\ LegacyStdH \in cols /\ StdH \notin cols THEN LegacyStdH
    ELSE h

Renamed(cols) ==
    {h \in {MedianH, MeanH, StdH} : RenameSource(cols, h) # h}

\* stats.rename(columns=rename_map): the header after renaming
RenamedCols(cols) ==
    (cols \ {RenameSource(cols, h) : h \in Renamed(cols)}) \cup Renamed(cols)

\* the cell of column h (a header of RenamedCols) in a row of the file
Cell(cols, row, h) ==
    IF RenameSource(cols, h) \in cols THEN row[RenameSource(cols, h)] ELSE NaN

needed == {"Ticker", MedianH, MeanH, StdH}

_label_uses_mean(cur, med, mean, sd) ==
    IF isna(cur) \/ isna(mean) \/ isna(sd) THEN "Unknown"
    ELSE IF Val(cur) > Val(mean) + Val(sd) THEN "Underpriced"
    ELSE IF Val(cur) < Val(mean) - Val(sd) THEN "Overpriced"
    ELSE "Fair Price"

_label_nonstrict(cur, med, mean, sd) ==
    IF isna(cur) \/ isna(med) \/ isna(sd) THEN "Unknown"
    ELSE IF Val(cur) >= Val(med) + Val(sd) THEN "Underpriced"
    ELSE IF Val(cur) <= Val(med) - Val(sd) THEN "Overpriced"
    ELSE "Fair Price"

_label_no_missing_check(cur, med, mean, sd) ==
    LET v(x) == IF isna(x) THEN 0 ELSE Val(x)
    IN IF v(cur) > v(med) + v(sd) THEN "Underpriced"
       ELSE IF v(cur) < v(med) - v(sd) THEN "Overpriced"
       ELSE "Fair Price"

\* _label(row): the row's cur, med, mean (never read) and sd
_label(cur, med, mean, sd) ==
    IF isna(cur) \/ isna(med) \/ isna(sd) THEN "Unknown"
    ELSE LET low == Val(med) - Val(sd)
             high == Val(med) + Val(sd)
         IN IF Val(cur) > high THEN "Underpriced"
            ELSE IF Val(cur) < low THEN "Overpriced"
            ELSE "Fair Price"

OutRow(d, med, mean, sd, valuation) ==
    [Ticker |-> d.Ticker, cur |-> d.cur, med |-> med, mean |-> mean, sd |-> sd,
     Valuation |-> valuation]

\* the fallback of lines 177-181 and 198-202
UnknownRows(dly) ==
    [i \in DOMAIN dly |-> OutRow(dly[i], NaN, NaN, NaN, "Unknown")]

\* out.merge(stats[[...]], on="Ticker", how="left") for one row of daily_df,
\* followed by _label on each row of the result
MergeRow(d, cols, rows) ==
    LET Matches(r) == r["Ticker"] = d.Ticker
        hit == SelectSeq(rows, Matches)
    IN IF hit = << >>
       THEN <<OutRow(d, NaN, NaN, NaN, _label(d.cur, NaN, NaN, NaN))>>
       ELSE [k \in DOMAIN hit |->
                LET med == Cell(cols, hit[k], MedianH)
                    mean == Cell(cols, hit[k], MeanH)
                    sd == Cell(cols, hit[k], StdH)
                IN OutRow(d, med, mean, sd, _label(d.cur, med, mean, sd))]

RECURSIVE MergeRows(_, _, _)
MergeRows(dly, cols, rows) ==
    IF dly = << >> THEN << >>
    ELSE MergeRows(SubSeq(dly, 1, Len(dly) - 1), cols, rows)
             \o MergeRow(dly[Len(dly)], cols, rows)

needed_without_mean(cols) == {"Ticker", MedianH, StdH} \subseteq RenamedCols(cols)

\* needed.issubset(stats.columns) after the renaming
needed_issubset(cols) == needed \subseteq RenamedCols(cols)

\* _merge_stats_and_valuation(daily_df, stats_csv)
_merge_stats_and_valuation(dly, file) ==
    \* pd.DataFrame([]) has no columns at all
    IF dly = << >> THEN [status |-> "ValueError", rows |-> << >>]
    ELSE IF file.state = "absent" THEN [status |-> "ok", rows |-> UnknownRows(dly)]
    ELSE IF file.state = "unreadable"
         THEN [status |-> "EmptyDataError", rows |-> << >>]
    ELSE IF ~needed_issubset(file.cols)
         THEN [status |-> "ok", rows |-> UnknownRows(dly)]
    ELSE [status |-> "ok", rows |-> MergeRows(dly, file.cols, file.rows)]

----------------------------------------------------------------------------
(* Specification SpecVal: one _merge_stats_and_valuation call on a daily     *)
(* table and a statistics file.                                              *)

CurValues == {NaN, <<399>>, <<400>>, <<500>>, <<600>>, <<601>>}

MedValues == {NaN, <<500>>}

StdValues == {NaN, <<100>>}

MeanValues == {NaN, <<450>>, <<700>>}

DailyRows == [Ticker : Tickers, cur : CurValues]

Layouts ==
    {t \cup m \cup u \cup s :
        t \in {{}, {"Ticker"}},
        m \in {{}, {MedianH}, {LegacyMedianH}, {MedianH, LegacyMedianH}},
        u \in {{}, {MeanH}, {LegacyMeanH}},
        s \in {{}, {StdH}, {LegacyStdH}}}

\* a row of a statistics file with header cols: ticker t, median m, mean u and
\* std-dev s, each under whichever of its headers the file has (a legacy
\* "Average Yield %" beside the new median header holds the mean)
StatRow(cols, t, m, u, s) ==
    [h \in cols |->
        IF h = "Ticker" THEN t
        ELSE IF h = MedianH THEN m
        ELSE IF h = LegacyMedianH THEN (IF MedianH \in cols THEN u ELSE m)
        ELSE IF h \in {MeanH, LegacyMeanH} THEN u
        ELSE s]

StatRows(cols) ==
    {StatRow(cols, t, m, <<450>>, s) : t \in Tickers, m \in MedValues, s \in StdValues}

StatsFiles ==
    {[state |-> "absent", cols |-> {}, rows |-> << >>],
     [state |-> "unreadable", cols |-> {}, rows |-> << >>]}
    \cup UNION {{[state |-> "table", cols |-> cols, rows |-> rows] :
                    rows \in SeqsUpTo(StatRows(cols), MaxStats)} : cols \in Layouts}

InitVal ==
    /\ daily \in SeqsUpTo(DailyRows, MaxDaily)
    /\ stats \in StatsFiles
    /\ merged = IdleMerged
    /\ DaysIdle /\ HistIdle /\ TickIdle /\ CacheIdle

MergeStats ==
    /\ merged.status = "none"
    /\ merged' = _merge_stats_and_valuation(daily, stats)
    /\ UNCHANGED <<days, label, csv, upd, daily, stats, tin, trow, PRICE_CACHE_MEM, calls>>

NextVal == MergeStats

SpecVal == InitVal /\ [][NextVal]_vars

\* C5: when current yield, median and std-dev are all present, the label is
\* Underpriced iff current > median + std, Overpriced iff current < median - std,
\* and Fair Price otherwise (so current = median + std or median - std is Fair).
C5_ValuationBand ==
    merged.status = "ok" =>
        \A i \in DOMAIN merged.rows :
            LET r == merged.rows[i]
            IN (~isna(r.cur) /\ ~isna(r.med) /\ ~isna(r.sd)) =>
                  /\ r.Valuation = "Underpriced" <=> Val(r.cur) > Val(r.med) + Val(r.sd)
                  /\ r.Valuation = "Overpriced" <=> Val(r.cur) < Val(r.med) - Val(r.sd)
                  /\ r.Valuation = "Fair Price" <=>
                         /\ Val(r.cur) <= Val(r.med) + Val(r.sd)
                         /\ Val(r.cur) >= Val(r.med) - Val(r.sd)

\* C5 witness: median 5.00, std 1.00 and current 6.00 were labelled Fair Price.
C5_Witness ==
    /\ merged.status = "ok"
    /\ \E i \in DOMAIN merged.rows :
           LET r == merged.rows[i]
           IN r.cur = <<600>> /\ r.med = <<500>> /\ r.sd = <<100>>
              /\ r.Valuation = "Fair Price"

\* the tickers that have a row in the statistics table
StatTickers ==
    IF stats.state = "table" /\ "Ticker" \in stats.cols
    THEN {stats.rows[k]["Ticker"] : k \in DOMAIN stats.rows}
    ELSE {}

\* C6: a row whose current yield, median or std-dev is missing is Unknown; every
\* row of a ticker with no entry in the statistics table is Unknown whatever its
\* current yield; and the merge of a readable table raises nothing.
C6_MissingIsUnknown ==
    /\ merged.status = "ok" =>
           \A i \in DOMAIN merged.rows :
               LET r == merged.rows[i]
               IN /\ (isna(r.cur) \/ isna(r.med) \/ isna(r.sd)) => r.Valuation = "Unknown"
                  /\ (stats.state = "table" /\ r.Ticker \notin StatTickers) =>
                         r.Valuation = "Unknown"
    /\ (merged.status # "none" /\ daily # << >> /\ stats.state = "table") =>
           /\ merged.status = "ok"
           /\ \A k \in DOMAIN daily :
                  \E i \in DOMAIN merged.rows : merged.rows[i].Ticker = daily[k].Ticker

\* C6 witness: a row with a current yield, of a ticker the well-formed
\* statistics table has no row for, was labelled Unknown.
C6_Witness ==
    /\ merged.status = "ok"
    /\ stats.state = "table" /\ needed \subseteq stats.cols /\ stats.rows # << >>
    /\ \E i \in DOMAIN merged.rows :
           LET r == merged.rows[i]
           IN r.Ticker \notin StatTickers /\ r.cur = <<601>> /\ r.Valuation = "Unknown"

\* the file has the column, under its new header or its legacy one
HasColumns(cols) ==
    /\ "Ticker" \in cols
    /\ MedianH \in cols \/ LegacyMedianH \in cols
    /\ MeanH \in cols \/ LegacyMeanH \in cols
    /\ StdH \in cols \/ LegacyStdH \in cols

Valuations(rows) ==
    [i \in DOMAIN rows |-> [Ticker |-> rows[i].Ticker, Valuation |-> rows[i].Valuation]]

\* the statistics file with the mean of row k replaced by f[k]
WithMeans(file, f) ==
    [file EXCEPT !.rows =
        [k \in DOMAIN file.rows |->
            [h \in file.cols |->
                IF h \in {MeanH, LegacyMeanH} THEN f[k] ELSE file.rows[k][h]]]]

\* C8: the valuation does not depend on the mean: a statistics table that
\* differs only in its mean values (under the new or the legacy mean header)
\* gives every row the same Valuation.
C8_MeanNotUsed ==
    (merged.status = "ok" /\ stats.state = "table") =>
        \A f \in [DOMAIN stats.rows -> MeanValues] :
            LET other == _merge_stats_and_valuation(daily, WithMeans(stats, f))
            IN other.status = "ok" /\ Valuations(other.rows) = Valuations(merged.rows)

\* C8 witness: a row was labelled from a table row whose mean (4.50) lies
\* outside the band the label puts the current yield in.
C8_Witness ==
    /\ merged.status = "ok"
    /\ \E i \in DOMAIN merged.rows :
           LET r == merged.rows[i]
           IN r.cur = <<600>> /\ r.med = <<500>> /\ r.sd = <<100>> /\ r.mean = <<450>>
              /\ r.Valuation = "Fair Price"

----------------------------------------------------------------------------
(* Frequency text.  A text is the sequence of its characters, so that        *)
(* normalize_frequency is computed on it; None and "" are both << >>.        *)

None == << >>

Upper == <<"A", "B", "C", "D", "E", "F", "G", "H", "I", "J", "K", "L", "M",
           "N", "O", "P", "Q", "R", "S", "T", "U", "V", "W", "X", "Y", "Z">>

Lower == <<"a", "b", "c", "d", "e", "f", "g", "h", "i", "j", "k", "l", "m",
           "n", "o", "p", "q", "r", "s", "t", "u", "v", "w", "x", "y", "z">>

LowerChar(c) ==
    IF \E i \in DOMAIN Upper : Upper[i] = c
    THEN Lower[CHOOSE i \in DOMAIN Upper : Upper[i] = c]
    ELSE c

\* str.lower()
lower(s) == [i \in DOMAIN s |-> LowerChar(s[i])]

\* .replace("_", " ").replace("-", " ").replace("/", " ").replace(".", " ")
replace_punct(s) ==
    [i \in DOMAIN s |-> IF s[i] \in {"_", "-", "/", "."} THEN " " ELSE s[i]]

\* " ".join(f.split()): no leading or trailing blank, runs of blanks collapsed
\* (str.strip() before it changes nothing that this does not)
RECURSIVE collapse(_)
collapse(s) ==
    IF s = << >> THEN << >>
    ELSE LET front == collapse(SubSeq(s, 1, Len(s) - 1))
         IN IF s[Len(s)] # " " THEN Append(front, s[Len(s)])
            ELSE IF front = << >> \/ front[Len(front)] = " " THEN front
            ELSE Append(front, " ")

join_split(s) ==
    LET c == collapse(s)
    IN IF c # << >> /\ c[Len(c)] = " " THEN SubSeq(c, 1, Len(c) - 1) ELSE c

Weekly == <<"W", "e", "e", "k", "l", "y">>

BiWeekly == <<"B", "i", "-">> \o Weekly

Monthly == <<"M", "o", "n", "t", "h", "l", "y">>

SemiMonthly == <<"S", "e", "m", "i", "-">> \o Monthly

Quarterly == <<"Q", "u", "a", "r", "t", "e", "r", "l", "y">>

Annual == <<"A", "n", "n", "u", "a", "l">>

SemiAnnual == <<"S", "e", "m", "i", "-">> \o Annual

Unknown == <<"U", "n", "k", "n", "o", "w", "n">>

Annually == Annual \o <<"l", "y">>

Canonical == {Weekly, BiWeekly, SemiMonthly, Monthly, Quarterly, SemiAnnual, Annual}

\* aliases.get(f, None)
aliases_get(f) ==
    IF f = lower(Weekly) THEN Weekly
    ELSE IF f = <<"b", "i", " ">> \o lower(Weekly) THEN BiWeekly
    ELSE IF f = <<"b", "i">> \o lower(Weekly) THEN BiWeekly
    ELSE IF f = <<"s", "e", "m", "i", " ">> \o lower(Monthly) THEN SemiMonthly
    ELSE IF f = <<"s", "e", "m", "i">> \o lower(Monthly) THEN SemiMonthly
    ELSE IF f = lower(Monthly) THEN Monthly
    ELSE IF f = lower(Quarterly) THEN Quarterly
    ELSE IF f = <<"q", "t", "r">> THEN Quarterly
    ELSE IF f = <<"s", "e", "m", "i", " ">> \o lower(Annual) THEN SemiAnnual
    ELSE IF f = <<"s", "e", "m", "i">> \o lower(Annual) THEN SemiAnnual
    ELSE IF f = <<"y", "e", "a", "r", "l", "y">> THEN Annual
    ELSE IF f = lower(Annual) THEN Annual
    ELSE None

\* normalize_frequency(freq) of daily_etf_yield_tracker.py
normalize_frequency(freq) ==
    IF freq = None THEN None
    ELSE aliases_get(join_split(replace_punct(lower(freq))))

FREQ_MULTIPLIER_get_default_monthly(freq) ==
    IF freq = Weekly THEN <<52>>
    ELSE IF freq = BiWeekly THEN <<26>>
    ELSE IF freq = SemiMonthly THEN <<24>>
    ELSE IF freq = Quarterly THEN <<4>>
    ELSE IF freq = SemiAnnual THEN <<2>>
    ELSE IF freq = Annual THEN <<1>>
    ELSE <<12>>

\* FREQ_MULTIPLIER.get(freq_text, None), the same table in both trackers
FREQ_MULTIPLIER_get(freq) ==
    IF freq = Weekly THEN <<52>>
    ELSE IF freq = BiWeekly THEN <<26>>
    ELSE IF freq = SemiMonthly THEN <<24>>
    ELSE IF freq = Monthly THEN <<12>>
    ELSE IF freq = Quarterly THEN <<4>>
    ELSE IF freq = SemiAnnual THEN <<2>>
    ELSE IF freq = Annual THEN <<1>>
    ELSE None

----------------------------------------------------------------------------
(* process_ticker of daily_etf_yield_tracker.py and of etf_yield_tracker.py. *)
(* A symbol is [base, to]: base followed by ".TO" when to holds.  Dividends  *)
(* and prices are in cents, yields in units of 0.001 %.                      *)

\* Python truth of a float or None: None and 0.0 are false
Truthy(v) == ~isna(v) /\ Val(v) # 0

\* round(n / d) to the nearest whole unit, ties to even
RoundDiv(n, d) ==
    LET q == n \div d
        r == n % d
    IN IF 2 * r < d THEN q
       ELSE IF 2 * r > d THEN q + 1
       ELSE q + (q % 2)

\* round(last_div * multiplier / price * 100, 3)
YieldOf(last_div, mult, price) ==
    <<RoundDiv(Val(last_div) * Val(mult) * 100000, Val(price))>>

\* frequency_map.get(key)
map_get(fmap, key) == IF key \in DOMAIN fmap THEN fmap[key] ELSE None

MapFrequency_exact_only(in) ==
    LET exact == map_get(in.fmap, in.symbol)
    IN IF exact # None THEN normalize_frequency(exact) ELSE None

\* lines 244-255 of daily_etf_yield_tracker.py: the frequency from the map
MapFrequency(in) ==
    LET exact == map_get(in.fmap, in.symbol)
        other == map_get(in.fmap, [in.symbol EXCEPT !.to = ~in.symbol.to])
        found == IF DOMAIN in.fmap = {} THEN None
                 ELSE IF exact # None THEN exact
                 ELSE IF in.is_tsx THEN other
                 ELSE None
    IN IF found # None THEN normalize_frequency(found) ELSE None

TickRow(script, freq, mult, last_div, price, yield) ==
    [status |-> "ok", script |-> script, Frequency |-> freq, mult |-> mult,
     last_div |-> last_div, price |-> price, yield |-> yield]

\* process_ticker(symbol, is_tsx, frequency_map) of daily_etf_yield_tracker.py
process_ticker_daily(in) ==
    IF ~in.info_ok
    THEN \* yf.Ticker / t.info raised: the except branch's row
         TickRow("daily", None, NaN, NaN, NaN, NaN)
    ELSE LET last_div == IF isna(in.dho_div) THEN in.yf_div ELSE in.dho_div
             f1 == MapFrequency(in)
             f2 == IF f1 = None THEN normalize_frequency(in.dho_freq) ELSE f1
             freq_text == IF f2 = None THEN Unknown ELSE f2
             multiplier == FREQ_MULTIPLIER_get(freq_text)
             current_yield ==
                 IF Truthy(last_div) /\ Truthy(multiplier) /\ Truthy(in.price)
                 THEN YieldOf(last_div, multiplier, in.price)
                 ELSE NaN
         IN TickRow("daily", freq_text, multiplier, last_div, in.price, current_yield)

\* process_ticker(symbol, is_tsx) of etf_yield_tracker.py
process_ticker_etf(in) ==
    IF ~in.info_ok
    THEN [status |-> "raised"]
    ELSE LET from_yf == isna(in.dho_div)
             last_div == IF from_yf THEN in.yf_div ELSE in.dho_div
             freq_text == IF from_yf THEN None ELSE in.dho_freq
             multiplier == FREQ_MULTIPLIER_get(freq_text)
             \* forward_div is truthy iff last_div and multiplier are (the
             \* multipliers are not 0), forward_yield iff forward_div and price are
             forward_yield ==
                 IF Truthy(last_div) /\ Truthy(multiplier) /\ Truthy(in.price)
                 THEN YieldOf(last_div, multiplier, in.price)
                 ELSE NaN
         IN TickRow("etf", freq_text, multiplier, last_div, in.price, forward_yield)

----------------------------------------------------------------------------
(* The yield recomputation of frequency_inference.py (lines 180-199) for one *)
(* row, whose Frequency is the label line 167 has just assigned.             *)

\* the label strings of infer_frequency_from_days as text
LabelText(l) ==
    CASE l = "weekly" -> lower(Weekly)
      [] l = "bi-weekly" -> lower(BiWeekly)
      [] l = "semi-monthly" -> lower(SemiMonthly)
      [] l = "monthly" -> lower(Monthly)
      [] l = "quarterly" -> lower(Quarterly)
      [] l = "semi-annual" -> lower(SemiAnnual)
      [] l = "annual" -> lower(Annual)

\* drop every occurrence of character c: str.replace(c, "", regex=False)
remove_char(s, c) == SelectSeq(s, LAMBDA x : x # c)

\* lines 182-190: lower, strip, drop "_" and " ", then the three respellings
freq_key(text) ==
    LET s == remove_char(remove_char(join_split(lower(text)), "_"), " ")
    IN IF s = remove_char(lower(BiWeekly), "-") THEN lower(BiWeekly)
       ELSE IF s = remove_char(lower(SemiMonthly), "-") THEN lower(SemiMonthly)
       ELSE IF s = remove_char(lower(SemiAnnual), "-") THEN lower(SemiAnnual)
       ELSE s

\* the keys of FREQ_MULTIPLIER of frequency_inference.py and their values
InferenceMultiplier(key) ==
    IF key = lower(Weekly) THEN <<52>>
    ELSE IF key \in {lower(BiWeekly), remove_char(lower(BiWeekly), "-")} THEN <<26>>
    ELSE IF key \in {lower(SemiMonthly), remove_char(lower(SemiMonthly), "-")} THEN <<24>>
    ELSE IF key = lower(Monthly) THEN <<12>>
    ELSE IF key = lower(Quarterly) THEN <<4>>
    ELSE IF key \in {lower(SemiAnnual), remove_char(lower(SemiAnnual), "-")} THEN <<2>>
    ELSE IF key \in {lower(Annual), lower(Annually)} THEN <<1>>
    ELSE NaN

\* line 191: freq_key.map(FREQ_MULTIPLIER).fillna(12)
fillna(v, d) == IF isna(v) THEN <<d>> ELSE v

\* a float division by zero in the yield column
Inf == <<"inf">>

\* lines 167 and 180-199 for one row
recompute_yield(in) ==
    LET Frequency == LabelText(infer_frequency_from_days(in.gap))
        mult == fillna(InferenceMultiplier(freq_key(Frequency)), 12)
        yield == IF isna(in.div) \/ isna(in.price) THEN NaN
                 ELSE IF Val(in.price) = 0
                      THEN (IF Val(in.div) = 0 THEN NaN ELSE Inf)
                      ELSE YieldOf(in.div, mult, in.price)
    IN TickRow("inference", Frequency, mult, in.div, in.price, yield)

----------------------------------------------------------------------------
(* Specification SpecTick: one process_ticker call of either tracker, or one *)
(* row of the yield recomputation.                                           *)

Symbols == [base : {"X"}, to : BOOLEAN]

FrequencyMaps ==
    {<< >>} \cup {[k \in {s} |-> v] : s \in Symbols, v \in {Quarterly, BiWeekly}}
    \cup {[k \in Symbols |-> IF k.to THEN v1 ELSE v2] :
              v1 \in {Quarterly, BiWeekly}, v2 \in {Quarterly, BiWeekly}}

\* what dividendhistory.org prints after "Frequency:"
DhoFrequencies ==
    {None, Monthly, lower(Monthly), <<"S", "e", "m", "i", " ">> \o Annual,
     Annually, Unknown}

TickInputs ==
    [script : {"daily", "etf"},
     symbol : Symbols,
     is_tsx : BOOLEAN,
     fmap : FrequencyMaps,
     dho_div : {NaN, <<0>>, <<50>>},
     dho_freq : DhoFrequencies,
     yf_div : {NaN, <<40>>},
     price : {NaN, <<0>>, <<2000>>},
     info_ok : BOOLEAN]

RecomputeInputs ==
    [script : {"inference"},
     gap : {NaN, <<0>>, <<7>>, <<14>>, <<21>>, <<30>>, <<91>>, <<182>>, <<365>>},
     div : {NaN, <<0>>, <<50>>},
     price : {NaN, <<0>>, <<2000>>}]

InitTick ==
    /\ tin \in TickInputs \cup RecomputeInputs
    /\ trow = IdleTrow
    /\ DaysIdle /\ HistIdle /\ ValIdle /\ CacheIdle

ProcessTickerDaily ==
    /\ trow.status = "none"
    /\ tin.script = "daily"
    /\ trow' = process_ticker_daily(tin)
    /\ UNCHANGED <<days, label, csv, upd, daily, stats, merged, tin, PRICE_CACHE_MEM, calls>>

ProcessTickerEtf ==
    /\ trow.status = "none"
    /\ tin.script = "etf"
    /\ trow' = process_ticker_etf(tin)
    /\ UNCHANGED <<days, label, csv, upd, daily, stats, merged, tin, PRICE_CACHE_MEM, calls>>

RecomputeYield ==
    /\ trow.status = "none"
    /\ tin.script = "inference"
    /\ trow' = recompute_yield(tin)
    /\ UNCHANGED <<days, label, csv, upd, daily, stats, merged, tin, PRICE_CACHE_MEM, calls>>

NextTick == ProcessTickerDaily \/ ProcessTickerEtf \/ RecomputeYield

SpecTick == InitTick /\ [][NextTick]_vars

\* the labels a script's multiplier table has an entry for
Recognised(script) ==
    IF script = "inference"
    THEN {k \in {lower(c) : c \in Canonical \cup {Annually}} \cup
                {remove_char(lower(c), "-") : c \in Canonical} :
              ~isna(InferenceMultiplier(k))}
    ELSE Canonical \ {Unknown}

----------------------------------------------------------------------------
(* patch_frequency_from_intervals.py *)

\* infer_frequency(days)
infer_frequency(d) ==
    IF d < 10 THEN "weekly"
    ELSE IF d < 20 THEN "bi-weekly"
    ELSE IF d < 25 THEN "semi-monthly"
    ELSE IF d < 60 THEN "monthly"
    ELSE IF d < 130 THEN "quarterly"
    ELSE IF d < 250 THEN "semi-annual"
    ELSE "annual"

\* update_frequency(df): the groups in Ticker order, each in date order; the
\* first row of a group keeps its Frequency, every other row gets the label of
\* its gap to the row before it
update_frequency(rows) ==
    LET s == sort_values(rows)
    IN [i \in DOMAIN s |->
           IF i = 1 \/ s[i - 1].Ticker # s[i].Ticker
           THEN s[i]
           ELSE [s[i] EXCEPT !.Frequency = infer_frequency(s[i].Date - s[i - 1].Date)]]

\* process_file(path): the file it leaves and how the call ended
process_file(file) ==
    IF file.state = "table" /\ file.rows # << >>
    THEN [file |-> Table(update_frequency(file.rows)), outcome |-> "patched"]
    ELSE [file |-> file, outcome |-> "patch raised"]

----------------------------------------------------------------------------
(* Specification SpecLegacy: the frequency-update scripts run on a history   *)
(* file that already has Frequency values and the optional columns           *)
(* "Price on Ex-Date" (cents) and "Annualized Yield %" (units of 0.001 %).   *)

MaxLegacyRows == 2

LegacyRows ==
    [Ticker : Tickers, Date : {0, 95}, Dividend : {NaN, <<50>>},
     Frequency : {"", "weekly"}, Price : {NaN, <<2000>>}, Yield : {NaN, <<1>>}]

LegacyTables == {Table(r) : r \in SeqsUpTo(LegacyRows, MaxLegacyRows) \ {<< >>}}

InitLegacy ==
    /\ csv \in LegacyTables
    /\ upd = "none"
    /\ DaysIdle /\ ValIdle /\ TickIdle /\ CacheIdle

PatchFrequency ==
    LET r == process_file(csv)
    IN /\ csv' = r.file
       /\ upd' = r.outcome
       /\ UNCHANGED <<days, label, daily, stats, merged, tin, trow, PRICE_CACHE_MEM, calls>>

NextLegacy == UpdateFrequencies \/ PatchFrequency

SpecLegacy == InitLegacy /\ [][NextLegacy]_vars

\* the last run on the table in the file was update_frequencies_inplace
UpdateRan == upd \in {"written", "ValueError"} /\ csv.state = "table"

\* the Frequency values of ticker t's events, in date order
FrequenciesOf(rows, t) == [i \in DOMAIN Group(rows, t) |-> Group(rows, t)[i].Frequency]

\* C13: a second update_frequencies_inplace run on the table a first run wrote,
\* with no new events, completes and leaves the written table, and so every
\* row's Frequency, as the first run left it.
C13_Idempotent ==
    UpdateRan =>
        /\ upd = "written"
        /\ update_frequencies_inplace(csv) = [file |-> csv, outcome |-> "written"]

\* tables that agree with rows on ticker t's dates and amounts: another
\* pre-existing Frequency, other prices, no other ticker's rows, another order
WithFrequency(rows, f) == [i \in DOMAIN rows |-> [rows[i] EXCEPT !.Frequency = f]]

WithPrice(rows, v) == [i \in DOMAIN rows |-> [rows[i] EXCEPT !.Price = v]]

Reversed(rows) == [i \in DOMAIN rows |-> rows[Len(rows) + 1 - i]]

Variants(rows, t) ==
    {WithFrequency(rows, f) : f \in {"", "weekly", "annual"}} \cup
    {WithPrice(rows, v) : v \in {NaN, <<2000>>}} \cup
    {Group(rows, t), Reversed(rows)}

\* C14: the labels update_frequencies_inplace gives ticker t's events depend on
\* t's own dates and amounts only: every table that agrees on them, whatever
\* its other tickers' rows, row order, prices and earlier Frequency values,
\* gets the same labels for t.
C14_OwnEventsOnly ==
    UpdateRan =>
        \A t \in Tickers :
            \A alt \in Variants(csv.rows, t) :
                alt # << >> =>
                    FrequenciesOf(update_frequencies_inplace(Table(alt)).file.rows, t)
                        = FrequenciesOf(csv.rows, t)

\* the labels the two scripts infer
InferredLabels ==
    {"weekly", "bi-weekly", "semi-monthly", "monthly", "quarterly", "semi-annual", "annual"}

\* C15: after a run of a frequency-update script on the table, every row's
\* Frequency is a label that run inferred; no row keeps the value it had.
C15_FrequencyOverwritten ==
    (csv.state = "table" /\ upd \in {"written", "ValueError", "patched"}) =>
        /\ upd # "ValueError"
        /\ \A i \in DOMAIN csv.rows : csv.rows[i].Frequency \in InferredLabels

\* Dividend * multiplier(Frequency) / Price on Ex-Date * 100 of a written row
AnnualizedYield(row) ==
    IF isna(row.Dividend) \/ isna(row.Price) THEN NaN
    ELSE IF Val(row.Price) = 0 THEN (IF Val(row.Dividend) = 0 THEN NaN ELSE Inf)
    ELSE YieldOf(row.Dividend,
                 fillna(InferenceMultiplier(freq_key(LabelText(row.Frequency))), 12),
                 row.Price)

\* C17: on a table with the columns "Annualized Yield %" and "Price on Ex-Date",
\* after update_frequencies_inplace every row's Annualized Yield % is
\* Dividend * multiplier(its new Frequency) / Price * 100, and missing when the
\* price or the dividend is missing.
C17_YieldRecomputed ==
    UpdateRan =>
        /\ upd = "written"
        /\ \A i \in DOMAIN csv.rows : csv.rows[i].Yield = AnnualizedYield(csv.rows[i])

----------------------------------------------------------------------------
(* _to_float of frequency_inference.py and of historical_yield_tracker.py    *)
(* (the same code).  A string is a sequence of characters; a parsed number   *)
(* is [num, exp], the value num / 10^exp with no trailing fractional zero.   *)

Digits == {"0", "1"}

DigitVal(c) == IF c = "0" THEN 0 ELSE 1

\* str.strip(): leading and trailing blanks removed
RECURSIVE lstrip(_)
lstrip(s) == IF s # << >> /\ s[1] = " " THEN lstrip(Tail(s)) ELSE s

RECURSIVE rstrip(_)
rstrip(s) ==
    IF s # << >> /\ s[Len(s)] = " " THEN rstrip(SubSeq(s, 1, Len(s) - 1)) ELSE s

strip(s) == rstrip(lstrip(s))

\* ("", "-", the em dash U+2014, "None", "nan", "NaN")
Placeholders ==
    {<< >>, <<"-">>, <<"U+2014">>, <<"N", "o", "n", "e">>, <<"n", "a", "n">>,
     <<"N", "a", "N">>}

\* the text float() reads: blanks trimmed, one leading sign taken off
Unsigned(s) ==
    LET t == strip(s)
    IN IF t # << >> /\ t[1] \in {"-", "+"} THEN Tail(t) ELSE t

\* float(s) succeeds: digits with at most one point and at least one digit
\* (exponents, inf, nan and digit underscores need characters outside Chars)
float_ok(s) ==
    LET u == Unsigned(s)
    IN /\ \A i \in DOMAIN u : u[i] \in Digits \cup {"."}
       /\ Cardinality({i \in DOMAIN u : u[i] = "."}) <= 1
       /\ \E i \in DOMAIN u : u[i] \in Digits

RECURSIVE DigitsToInt(_)
DigitsToInt(ds) ==
    IF ds = << >> THEN 0
    ELSE 10 * DigitsToInt(SubSeq(ds, 1, Len(ds) - 1)) + DigitVal(ds[Len(ds)])

RECURSIVE Normal(_, _)
Normal(num, exp) ==
    IF exp > 0 /\ num % 10 = 0 THEN Normal(num \div 10, exp - 1)
    ELSE [num |-> num, exp |-> exp]

\* float(s) of a string float() accepts
float_value(s) ==
    LET t == strip(s)
        u == Unsigned(s)
        point == {i \in DOMAIN u : u[i] = "."}
        exp == IF point = {} THEN 0 ELSE Len(u) - (CHOOSE i \in point : TRUE)
        mag == DigitsToInt(remove_char(u, "."))
        n == Normal(mag, exp)
    IN IF t[1] = "-" THEN [n EXCEPT !.num = 0 - n.num] ELSE n

\* _to_float(x): how the call ends and what it returns
_to_float(x) ==
    LET s == remove_char(remove_char(strip(x), ","), "$")
        kept == SelectSeq(s, LAMBDA ch : ch \in Digits \cup {".", "-"})
    IN IF s \in Placeholders THEN [status |-> "ok", value |-> NaN]
       ELSE IF float_ok(s) THEN [status |-> "ok", value |-> float_value(s)]
       ELSE IF kept = << >> THEN [status |-> "ok", value |-> NaN]
       ELSE IF float_ok(kept) THEN [status |-> "ok", value |-> float_value(kept)]
       ELSE [status |-> "ValueError"]

----------------------------------------------------------------------------
(* Specification SpecFloat: one _to_float call on a short string.            *)

MaxText == 3

Chars == {"0", "1", ".", "-", "$", ",", " ", "a"}

Texts == SeqsUpTo(Chars, MaxText)

InitFloat ==
    /\ tin \in [script : {"_to_float"}, x : Texts]
    /\ trow = IdleTrow
    /\ DaysIdle /\ HistIdle /\ ValIdle /\ CacheIdle

ToFloat ==
    /\ trow.status = "none"
    /\ tin.script = "_to_float"
    /\ trow' = _to_float(tin.x)
    /\ UNCHANGED <<days, label, csv, upd, daily, stats, merged, tin, PRICE_CACHE_MEM, calls>>

NextFloat == ToFloat

SpecFloat == InitFloat /\ [][NextFloat]_vars

\* the string with currency symbols and thousands separators taken out
Sanitized(x) == strip(remove_char(remove_char(x, ","), "$"))

\* C16: _to_float never raises; it returns the number the string holds once
\* "$" and "," are removed, and NaN (never 0) for a placeholder dash, an empty
\* string and every string that is not one number.
C16_ToFloatTotal ==
    trow.status # "none" =>
        /\ trow.status = "ok"
        /\ trow.value = IF float_ok(Sanitized(tin.x)) /\ Sanitized(tin.x) \notin Placeholders
                        THEN float_value(Sanitized(tin.x))
                        ELSE NaN

----------------------------------------------------------------------------
(* build_csv of daily_etf_yield_tracker.py and of etf_yield_tracker.py.      *)
(* Yields and statistics are in units of 0.001 % here.                       *)

\* v1 comes no later than v2 when sorting descending with missing values last
YieldGeq(v1, v2) == isna(v2) \/ (~isna(v1) /\ Val(v1) >= Val(v2))

\* r put before every row of the sorted s that must not come before it
RECURSIVE InsertByYield(_, _)
InsertByYield(r, s) ==
    IF s = << >> THEN <<r>>
    ELSE IF YieldGeq(r.cur, s[1].cur) THEN <<r>> \o s
    ELSE <<s[1]>> \o InsertByYield(r, Tail(s))

sort_by_yield_skipped(s) == s

\* df.sort_values(by=<yield column>, ascending=False, na_position="last");
\* rows with equal yields are left in their order
RECURSIVE sort_by_yield(_)
sort_by_yield(s) ==
    IF s = << >> THEN << >> ELSE InsertByYield(s[1], sort_by_yield(Tail(s)))

\* data = [process_ticker(t, is_tsx, frequency_map=frequency_map) for t in tickers]
DailyData(tickers) ==
    [i \in DOMAIN tickers |->
        [Ticker |-> tickers[i].symbol.base,
         cur |-> process_ticker_daily(tickers[i]).yield]]

\* build_csv of daily_etf_yield_tracker.py: the report it saves, or how it raised
build_csv(tickers, file) ==
    LET m == _merge_stats_and_valuation(DailyData(tickers), file)
    IN IF m.status # "ok" THEN [status |-> m.status, rows |-> << >>]
       ELSE [status |-> "saved", rows |-> sort_by_yield(m.rows)]

\* build_csv of etf_yield_tracker.py: process_ticker has no try/except, and
\* an empty DataFrame has no "Yield (Forward) %" column to sort by
build_csv_etf(tickers) ==
    IF \E i \in DOMAIN tickers : process_ticker_etf(tickers[i]).status = "raised"
    THEN [status |-> "raised", rows |-> << >>]
    ELSE IF tickers = << >> THEN [status |-> "KeyError", rows |-> << >>]
    ELSE [status |-> "saved",
          rows |-> sort_by_yield([i \in DOMAIN tickers |->
                       [Ticker |-> tickers[i].symbol.base,
                        cur |-> process_ticker_etf(tickers[i]).yield]])]

----------------------------------------------------------------------------
(* Specification SpecBuild: one build_csv run of either tracker.             *)

MaxTickers == 3

\* what the fetches give for one listed ticker
BuildInputs(script) ==
    [script : {script},
     symbol : [base : Tickers, to : {FALSE}],
     is_tsx : {FALSE},
     fmap : {<< >>},
     dho_div : {<<50>>},
     dho_freq : {None, Monthly, Quarterly},
     yf_div : {NaN},
     price : {<<2000>>},
     info_ok : BOOLEAN]

\* the statistics row of ticker t: median 20 %, mean 20 %, std-dev 5 %
BuildStatRow(t) == StatRow(needed, t, <<20000>>, <<20000>>, <<5000>>)

\* no file, an unreadable one, and tables with no row, a row for A, rows for A
\* and B, and two rows for A
BuildStats ==
    {[state |-> "absent", cols |-> {}, rows |-> << >>],
     [state |-> "unreadable", cols |-> {}, rows |-> << >>]}
    \cup {[state |-> "table", cols |-> needed, rows |-> rows] :
             rows \in {<< >>, <<BuildStatRow("A")>>,
                       <<BuildStatRow("A"), BuildStatRow("B")>>,
                       <<BuildStatRow("A"), BuildStatRow("A")>>}}

InitBuild ==
    /\ \/ /\ tin \in [script : {"daily"},
                      tickers : SeqsUpTo(BuildInputs("daily"), MaxTickers)]
          /\ stats \in BuildStats
       \/ /\ tin \in [script : {"etf"},
                      tickers : SeqsUpTo(BuildInputs("etf"), MaxTickers)]
          /\ stats = IdleStats
    /\ daily = << >>
    /\ merged = IdleMerged
    /\ trow = IdleTrow
    /\ DaysIdle /\ HistIdle /\ CacheIdle

BuildCsvDaily ==
    /\ merged.status = "none"
    /\ tin.script = "daily"
    /\ daily' = DailyData(tin.tickers)
    /\ merged' = build_csv(tin.tickers, stats)
    /\ UNCHANGED <<days, label, csv, upd, stats, tin, trow, PRICE_CACHE_MEM, calls>>

BuildCsvEtf ==
    /\ merged.status = "none"
    /\ tin.script = "etf"
    /\ merged' = build_csv_etf(tin.tickers)
    /\ UNCHANGED <<days, label, csv, upd, daily, stats, tin, trow, PRICE_CACHE_MEM, calls>>

NextBuild == BuildCsvDaily \/ BuildCsvEtf

SpecBuild == InitBuild /\ [][NextBuild]_vars

\* the rows of the report that are ticker t's
RowsOf(rows, t) == {k \in DOMAIN rows : rows[k].Ticker = t}

\* C18: build_csv of the daily tracker never raises, whatever the ticker list
\* and the per-ticker failures: it saves exactly one row per listed ticker, a
\* failed ticker's row has a missing yield and the valuation Unknown, and each
\* ticker's row is the one it gets when it is listed alone.
C18_BuildNeverRaises ==
    (tin.script = "daily" /\ merged.status # "none") =>
        /\ merged.status = "saved"
        /\ \A t \in Tickers :
               Cardinality(RowsOf(merged.rows, t)) =
                   Cardinality({i \in DOMAIN tin.tickers : tin.tickers[i].symbol.base = t})
        /\ \A i \in DOMAIN tin.tickers :
               /\ ~tin.tickers[i].info_ok =>
                      \E k \in RowsOf(merged.rows, tin.tickers[i].symbol.base) :
                          isna(merged.rows[k].cur) /\ merged.rows[k].Valuation = "Unknown"
               /\ \E k \in DOMAIN merged.rows :
                      merged.rows[k] = build_csv(<<tin.tickers[i]>>, stats).rows[1]

\* C19: the report build_csv writes is sorted by yield, descending: of two
\* rows with a present yield the earlier one has the greater or equal yield,
\* and no row with a missing yield comes before a row with a present one.
C19_ReportSorted ==
    merged.status = "saved" =>
        \A i, j \in DOMAIN merged.rows :
            i < j =>
                LET a == merged.rows[i].cur
                    b == merged.rows[j].cur
                IN /\ (~isna(a) /\ ~isna(b)) => Val(a) >= Val(b)
                   /\ isna(a) => isna(b)

\* C19 witness: the daily tracker got a missing yield, then 10 %, then 30 % for
\* three tickers and saved them as 30 %, 10 %, missing.
C19_Witness ==
    /\ merged.status = "saved" /\ tin.script = "daily"
    /\ Len(daily) = 3 /\ Len(merged.rows) = 3
    /\ isna(daily[1].cur) /\ daily[2].cur = <<10000>> /\ daily[3].cur = <<30000>>
    /\ merged.rows[1].cur = <<30000>> /\ merged.rows[2].cur = <<10000>>
    /\ isna(merged.rows[3].cur)

----------------------------------------------------------------------------
(* Frequency precedence in process_ticker of daily_etf_yield_tracker.py *)

\* the symbol with ".TO" dropped, or added
OtherSpelling(sym) == [sym EXCEPT !.to = ~sym.to]

\* the frequency the historical map holds for the ticker
Mapped(in) ==
    IF in.symbol \in DOMAIN in.fmap THEN in.fmap[in.symbol]
    ELSE IF in.is_tsx /\ OtherSpelling(in.symbol) \in DOMAIN in.fmap
         THEN in.fmap[OtherSpelling(in.symbol)]
    ELSE None

\* C20: process_ticker takes the frequency the historical map holds for the
\* ticker (exact symbol first, then with ".TO" dropped or added for TSX) when
\* it normalizes to a canonical label; else the dividend site's frequency when
\* that normalizes to one; else "Unknown", never Monthly.
C20_FrequencyPrecedence ==
    (trow.status = "ok" /\ trow.script = "daily" /\ tin.info_ok) =>
        trow.Frequency =
            IF normalize_frequency(Mapped(tin)) \in Canonical
            THEN normalize_frequency(Mapped(tin))
            ELSE IF normalize_frequency(tin.dho_freq) \in Canonical
                 THEN normalize_frequency(tin.dho_freq)
                 ELSE Unknown

\* C20 witness: a TSX ticker listed with ".TO" that the map holds without it
\* as Quarterly, while the dividend site says Monthly: the row says Quarterly.
C20_Witness ==
    /\ trow.status = "ok" /\ trow.script = "daily" /\ tin.info_ok
    /\ tin.is_tsx /\ tin.symbol.to /\ tin.symbol \notin DOMAIN tin.fmap
    /\ tin.dho_freq = Monthly
    /\ trow.Frequency = Quarterly

----------------------------------------------------------------------------
(* get_price_on_date and the in-memory price cache                          *)
(* (historical_yield_tracker.py:46-58, 129-143).  The cache key is the      *)
(* text symbol_date; the date part always has ten characters, so two        *)
(* different (symbol, date) pairs never share a key and the key is modelled *)
(* as the pair.  A quote is what the quote source would answer if asked.    *)

MaxCalls == 3

cache_key(symbol, date_str) == <<symbol, date_str>>

get_price_on_date_always_fetch(cache, key, quote) ==
    IF quote.kind = "rows"
    THEN [price |-> quote.Close, contacted |-> TRUE,
          cache |-> [k \in DOMAIN cache \cup {key} |->
                        IF k = key THEN quote.Close ELSE cache[k]]]
    ELSE [price |-> None, contacted |-> TRUE, cache |-> cache]

get_price_on_date(cache, key, quote) ==
    IF key \in DOMAIN cache
    THEN [price |-> cache[key], contacted |-> FALSE, cache |-> cache]
    ELSE IF quote.kind = "rows"
         THEN [price |-> quote.Close, contacted |-> TRUE,
               cache |-> [k \in DOMAIN cache \cup {key} |->
                             IF k = key THEN quote.Close ELSE cache[k]]]
         ELSE [price |-> None, contacted |-> TRUE, cache |-> cache]

----------------------------------------------------------------------------
(* Specification SpecCache: one run making get_price_on_date calls.  The    *)
(* cache starts as price_cache.json was loaded: empty when the file is      *)
(* absent or unreadable, otherwise the entries an earlier run saved.        *)

PriceDates == {0, 95}

PriceKeys == {cache_key(t, d) : t \in Tickers, d \in PriceDates}

Closes == {<<2000>>, <<2100>>}

Quotes == [kind : {"rows"}, Close : Closes]
              \cup {[kind |-> "empty"], [kind |-> "exception"]}

LoadedCaches ==
    {<< >>} \cup {[k \in {key} |-> <<1900>>] : key \in PriceKeys}

InitCache ==
    /\ PRICE_CACHE_MEM \in LoadedCaches
    /\ calls = << >>
    /\ DaysIdle /\ HistIdle /\ ValIdle /\ TickIdle

GetPriceOnDate ==
    /\ Len(calls) < MaxCalls
    /\ \E key \in PriceKeys, quote \in Quotes :
          LET r == get_price_on_date(PRICE_CACHE_MEM, key, quote)
          IN  /\ PRICE_CACHE_MEM' = r.cache
              /\ calls' = Append(calls,
                     [key |-> key, price |-> r.price,
                      contacted |-> r.contacted,
                      before |-> PRICE_CACHE_MEM, after |-> r.cache])
    /\ UNCHANGED <<days, label, csv, upd, daily, stats, merged, tin, trow>>

NextCache == GetPriceOnDate

SpecCache == InitCache /\ [][NextCache]_vars

Succeeded(c) == c.contacted /\ c.price # None

Failed(c) == c.contacted /\ c.price = None

\* C21: within one run, once a fetch for a key has succeeded every later
\* call for that key returns the same price without contacting the quote
\* source; no call overwrites or removes a cached entry; a failed fetch
\* returns missing and stores nothing, so the next call for that key
\* contacts the quote source again.
C21_PriceCache ==
    \A j \in DOMAIN calls :
        LET c == calls[j]
        IN  /\ \A k \in DOMAIN c.before :
                   k \in DOMAIN c.after /\ c.after[k] = c.before[k]
            /\ \A i \in 1..(j - 1) :
                   (calls[i].key = c.key /\ Succeeded(calls[i]))
                       => (c.price = calls[i].price /\ ~c.contacted)
            /\ Failed(c) => (c.after = c.before /\ c.key \notin DOMAIN c.after)
            /\ (j > 1 /\ calls[j - 1].key = c.key /\ Failed(calls[j - 1]))
                   => c.contacted
            /\ (j = Len(calls)) => c.after = PRICE_CACHE_MEM

C21_Witness ==
    /\ Len(calls) = 3
    /\ calls[1].key = calls[2].key /\ calls[2].key = calls[3].key
    /\ Failed(calls[1])
    /\ Succeeded(calls[2])
    /\ ~calls[3].contacted /\ calls[3].price = calls[2].price

----------------------------------------------------------------------------
(* process_universe (historical_yield_tracker.py:183-220) with              *)
(* latest_ex_date_in_csv (149-159).  Dates are day numbers; SINCE_DATE is   *)
(* day Since and the text "1900-01-01" is day MinDate.                      *)

Since == 0

MinDate == 0 - 1000

latest_ex_date_in_csv(file, ticker) ==
    LET own == {i \in DOMAIN file.rows : file.rows[i].Ticker = ticker}
    IN  IF file.state # "table" \/ own = {}
        THEN MinDate
        ELSE CHOOSE d \in {file.rows[i].Date : i \in own} :
                 \A i \in own : file.rows[i].Date <= d

(* the (ex-date, dividend) rows the dividend source lists for a ticker,     *)
(* newest first                                                              *)
dividend_rows(sym) ==
    IF sym = "A"
    THEN <<[Date |-> 95, Dividend |-> <<100>>],
           [Date |-> 0, Dividend |-> <<100>>],
           [Date |-> 0 - 30, Dividend |-> <<100>>]>>
    ELSE <<[Date |-> 95, Dividend |-> <<198>>]>>

(* the inner loop over one ticker's rows (lines 197-217)                    *)
RECURSIVE scan_rows(_, _, _, _, _)
scan_rows(rows, sym, last_in_csv, cache, quotes) ==
    IF rows = << >>
    THEN [collected |-> << >>, cache |-> cache]
    ELSE LET e == Head(rows)
         IN  IF e.Date < Since \/ e.Date <= last_in_csv
             THEN scan_rows(Tail(rows), sym, last_in_csv, cache, quotes)
             ELSE LET key  == cache_key(sym, e.Date)
                      r    == get_price_on_date(cache, key, quotes[key])
                      rest == scan_rows(Tail(rows), sym, last_in_csv,
                                        r.cache, quotes)
                  IN  IF r.price = None
                      THEN rest
                      ELSE [collected |->
                                <<[Ticker |-> sym, Date |-> e.Date,
                                   Dividend |-> e.Dividend,
                                   Frequency |-> ""]>> \o rest.collected,
                            cache |-> rest.cache]

(* the outer loop over the tickers (lines 186-219); a ticker whose          *)
(* dividend rows could not be fetched is skipped (lines 195-196)            *)
RECURSIVE scan_tickers(_, _, _, _, _)
scan_tickers(tickers, file, cache, quotes, listed) ==
    IF tickers = << >>
    THEN [collected |-> << >>, cache |-> cache]
    ELSE LET sym  == Head(tickers)
             rows == IF sym \in listed THEN dividend_rows(sym) ELSE << >>
             one  == scan_rows(rows, sym, latest_ex_date_in_csv(file, sym),
                               cache, quotes)
             rest == scan_tickers(Tail(tickers), file, one.cache, quotes,
                                  listed)
         IN  [collected |-> one.collected \o rest.collected,
              cache |-> rest.cache]

process_universe(tickers, file, cache, quotes, listed) ==
    LET s == scan_tickers(tickers, file, cache, quotes, listed)
    IN  [file |-> append_rows(file, s.collected), cache |-> s.cache]

----------------------------------------------------------------------------
(* Specification SpecUniverse: repeated runs of the historical tracker on   *)
(* one universe.  Each run draws, for every key, what the quote source      *)
(* would answer, and the tickers whose dividend rows the source lists.      *)
(* save_cache persists the cache between runs (lines 56-58, 231).           *)

Universe == <<"A", "B">>

RunQuotes == [PriceKeys -> {[kind |-> "rows", Close |-> <<2000>>],
                            [kind |-> "empty"]}]

InitUniverse ==
    /\ csv = [state |-> "absent", rows |-> << >>]
    /\ upd = "none"
    /\ PRICE_CACHE_MEM \in LoadedCaches
    /\ calls = << >>
    /\ tin = IdleTin /\ trow = IdleTrow
    /\ DaysIdle /\ ValIdle

ProcessUniverse ==
    /\ \E quotes \in RunQuotes, listed \in SUBSET Tickers :
          LET r == process_universe(Universe, csv, PRICE_CACHE_MEM,
                                    quotes, listed)
          IN  /\ csv' = r.file
              /\ PRICE_CACHE_MEM' = r.cache
              /\ tin' = [script |-> "process_universe",
                         quotes |-> quotes, listed |-> listed]
    /\ UNCHANGED <<days, label, upd, daily, stats, merged, trow, calls>>

NextUniverse == ProcessUniverse

SpecUniverse == InitUniverse /\ [][NextUniverse]_vars

(* the in-window events the source listed in the last run, with a price     *)
(* the run could find: cached, or answered by the quote source              *)
PriceFound(sym, d) ==
    /\ tin.script = "process_universe"
    /\ sym \in tin.listed
    /\ d >= Since
    /\ \/ tin.quotes[cache_key(sym, d)].kind = "rows"
       \/ cache_key(sym, d) \in DOMAIN PRICE_CACHE_MEM

Recorded(sym, d) == csv.state = "table" /\ <<sym, d>> \in Keys(csv.rows)

\* C22: after a run of process_universe, every in-window dividend event the
\* source listed and whose ex-date price the run could find is recorded in
\* the persisted table, also when it was skipped by an earlier run and
\* later-dated events of its ticker were recorded in between.
C22_EventuallyRecorded ==
    \A i \in DOMAIN Universe :
        \A j \in DOMAIN dividend_rows(Universe[i]) :
            LET sym == Universe[i]
                d   == dividend_rows(sym)[j].Date
            IN  PriceFound(sym, d) => Recorded(sym, d)

(* Once a later-dated event of the ticker is in the table, an unrecorded    *)
(* earlier event stays unrecorded in every later run (line 202), so the     *)
(* state violating C22_EventuallyRecorded is never repaired.                *)
SkippedForGood ==
    [][(Recorded("A", 95) /\ ~Recorded("A", 0)) => ~Recorded("A", 0)']_vars

----------------------------------------------------------------------------
(* load_frequency_map (daily_etf_yield_tracker.py:80-104) applied to the    *)
(* history file.  An empty Frequency cell is read as missing and dropped by *)
(* dropna; the map is keyed by the ticker as listed (no .TO suffix); a      *)
(* later row of a ticker overwrites the entry of an earlier one.            *)

symbol_of(ticker) == [base |-> ticker, to |-> FALSE]

RECURSIVE load_rows(_, _)
load_rows(rows, freq_map) ==
    IF rows = << >> THEN freq_map
    ELSE LET row == Head(rows)
             nf  == IF row.Frequency = "" THEN None
                    ELSE normalize_frequency(LabelText(row.Frequency))
             key == symbol_of(row.Ticker)
         IN  load_rows(Tail(rows),
                 IF nf # None
                 THEN [k \in DOMAIN freq_map \cup {key} |->
                          IF k = key THEN nf ELSE freq_map[k]]
                 ELSE freq_map)

load_frequency_map(file) ==
    IF file.state = "absent" THEN [status |-> "ok", map |-> << >>]
    ELSE IF file.state = "unreadable" THEN [status |-> "error", map |-> << >>]
    ELSE [status |-> "ok", map |-> load_rows(file.rows, << >>)]

----------------------------------------------------------------------------
(* Specification SpecEndToEnd: the history file of one ticker paying equal  *)
(* amounts at a constant day-gap, labeled by update_frequencies_inplace and *)
(* then read by the daily tracker (main, lines 318-340: load_frequency_map, *)
(* then process_ticker for the ticker).                                     *)

MaxEvents == 3

Gaps == {7, 30, 91}

RegularRows(n, g, amount, freq) ==
    [i \in 1..n |-> [Ticker |-> "A", Date |-> (i - 1) * g,
                     Dividend |-> amount, Frequency |-> freq]]

RegularTables ==
    {Table(RegularRows(n, g, a, f)) :
        n \in 2..MaxEvents, g \in Gaps, a \in {<<50>>, <<100>>},
        f \in {"", "weekly"}}

InitEndToEnd ==
    /\ csv \in RegularTables
    /\ upd = "none"
    /\ tin \in [script : {"daily"}, symbol : {symbol_of("A")},
                is_tsx : BOOLEAN, fmap : {<< >>}, dho_div : {<<50>>},
                dho_freq : {None, Monthly}, yf_div : {NaN},
                price : {<<2000>>}, info_ok : {TRUE}, labeled : {FALSE}]
    /\ trow = IdleTrow
    /\ DaysIdle /\ ValIdle /\ CacheIdle

DailyRun ==
    /\ trow.status = "none"
    /\ LET m  == load_frequency_map(csv)
           in == [tin EXCEPT !.fmap = m.map,
                             !.labeled = upd \notin {"none", "skipped"}]
       IN  /\ tin' = in
           /\ trow' = IF m.status = "ok" THEN process_ticker_daily(in)
                      ELSE [status |-> "error"]
    /\ UNCHANGED <<days, label, csv, upd, daily, stats, merged,
                   PRICE_CACHE_MEM, calls>>

NextEndToEnd == UpdateFrequencies \/ DailyRun

SpecEndToEnd == InitEndToEnd /\ [][NextEndToEnd]_vars

(* the rows are at least two events of one ticker with equal amounts, g     *)
(* days apart                                                               *)
ConstantGap(rows, g) ==
    /\ Len(rows) >= 2
    /\ \A i \in DOMAIN rows :
           /\ rows[i].Ticker = rows[1].Ticker
           /\ rows[i].Dividend = rows[1].Dividend
           /\ ~isna(rows[i].Dividend)
    /\ \A i \in 1..(Len(rows) - 1) : rows[i + 1].Date - rows[i].Date = g

LabelOf(g) == normalize_frequency(LabelText(infer_frequency_from_days(<<g>>)))

\* C23: for a ticker whose history holds at least two events with equal
\* amounts and a constant day-gap g, once update_frequencies_inplace has run
\* on the history table, the frequency load_frequency_map returns for the
\* ticker and process_ticker uses to annualize the yield is the label of g,
\* with that label's multiplier.
C23_EndToEnd ==
    \A g \in Gaps :
        (/\ trow.status = "ok"
         /\ tin.script = "daily" /\ tin.labeled
         /\ csv.state = "table" /\ ConstantGap(csv.rows, g))
            => /\ map_get(tin.fmap, tin.symbol) = LabelOf(g)
               /\ trow.Frequency = LabelOf(g)
               /\ trow.mult = FREQ_MULTIPLIER_get(LabelOf(g))

====
